---- MODULE Spec2Model ----
(***************************************************************************)
(* basic_circular_buffer<T, Alloc> (basic_circular_buffer.h): the ring     *)
(* index engine, its storage block with per-slot element lifetime, and the *)
(* resize / copy engine, as a state machine.                               *)
(*                                                                         *)
(* A buffer object is a record                                             *)
(*   cap   : capacity_()      (cpair_.second())                            *)
(*   alloc : number of slots of the block storage_ points to               *)
(*   blk   : the block storage_ points to: NullBlk (nullptr), or the least  *)
(*           object whose storage_ points to the same block                *)
(*   oi    : oldest_index_                                                 *)
(*   wi    : write_index_                                                  *)
(*   st    : the memory at storage_[0 .. MaxCap-1]; NoVal is a slot that   *)
(*           holds no constructed element                                  *)
(* Element construction may throw: every operation takes the outcome of    *)
(* the constructions it performs as an input.                              *)
(***************************************************************************)
EXTENDS Integers, Sequences, FiniteSets, TLC

\* ---- bounds of the model ------------------------------------------------
MaxCap == 3
NumVals == 2
MaxPush == 5
MaxAppend == 2
\* the largest capacity in the behaviours of two buffer objects (Spec2)
MaxCap2 == 2

\* the synchronized buffer (Spec3): threads, largest capacity, elements pushed
\* in a behaviour, largest count given to wait_npop
NumThreads == 2
MaxCap3 == 2
MaxPush3 == 3
MaxCount == 2
\* largest capacity of the two synchronized buffers that are assigned, swapped
\* and copied
MaxCap4 == 2
\* most push_back calls, and most wait_pop calls, on the first of them
MaxPush4 == 2

\* slot content of raw, uninitialized storage (allocate_ constructs nothing)
NoVal == 0

Vals == 1..NumVals
Slots == 0..(MaxCap - 1)
Bufs == {1, 2}
Threads == 1..NumThreads
NoThread == 0

VARIABLES
    bufs,   \* the buffer objects
    last,   \* the last operation: name, object, arguments, result, outcome
    hist,   \* the push_back calls on buffer 1 (value, value returned) since it
            \* was constructed empty with capacity cap0, while nothing but
            \* push_back was called on it and no call threw
    ub,     \* "none", or the undefined behaviour the last operation ran into
    mutex,  \* circular_buffer::m_ of each buffer: the thread that owns it, or
            \* NoThread
    cv,     \* circular_buffer::cv_ of buffer 1: the threads blocked in cv_.wait
    thr,    \* the threads: where each is in its call on the synchronized buffer
    trace   \* the synchronized buffer: the number of elements pushed, the
            \* elements taken out in order, and whether every call so far was
            \* a push_back or a wait_pop (prodcons)

vars == <<bufs, last, hist, ub, mutex, cv, thr, trace>>

Min(a, b) == IF a <= b THEN a ELSE b

\* ---- observers ------------------------------------------------------------
capacity(b) == b.cap

size(b) ==
    IF b.wi >= b.oi THEN b.wi - b.oi ELSE b.cap - b.oi + b.wi

empty(b) == b.wi = 0

checked_index_(b, index) ==
    IF index >= capacity(b) THEN index - capacity(b) ELSE index

\* operator[](index)
At(b, index) == b.st[checked_index_(b, b.oi + index)]

front(b) == b.st[b.oi]

back(b) == At(b, size(b) - 1)

\* the logical sequence operator[](0), ..., operator[](size() - 1)
Content(b) == [i \in 1..size(b) |-> At(b, i - 1)]

\* ---- storage ----------------------------------------------------------------
RawStorage == [i \in Slots |-> NoVal]

\* the slots destroy_(storage, capacity, oi, wi) runs std::destroy over
destroy_range(cap, oi, wi) ==
    IF wi < cap
    THEN {i \in Slots : oi <= i /\ i < wi}
    ELSE {i \in Slots : oi <= i /\ i < cap} \cup {i \in Slots : i < wi - cap}

\* std::destroy(storage + oi, storage + capacity) with oi > capacity never
\* meets its end pointer
destroy_runaway(cap, oi, wi) == wi >= cap /\ oi > cap

destroy_(st, cap, oi, wi) ==
    [i \in Slots |-> IF i \in destroy_range(cap, oi, wi) THEN NoVal ELSE st[i]]

\* the occupied region of invariant I
Region(b) ==
    IF b.wi < b.cap
    THEN {i \in Slots : b.oi <= i /\ i < b.wi}
    ELSE {i \in Slots : b.oi <= i /\ i < b.cap} \cup {i \in Slots : i < b.wi - b.cap}

Constructed(b) == {i \in Slots : b.st[i] # NoVal}

\* begin(), end(): iterator(storage_, index, capacity())
begin(b) == [base |-> b.blk, index |-> b.oi, capacity |-> capacity(b)]

\* (mutant) end() built from the wrapped write index
end_wrapped(b) ==
    [base |-> b.blk, index |-> checked_index_(b, b.wi), capacity |-> capacity(b)]

end(b) == [base |-> b.blk, index |-> b.wi, capacity |-> capacity(b)]

\* iterator operator==
IterEq(x, y) == x.index = y.index

\* the iterator's own checked_index_(index): it answers from index_, whatever
\* its argument; a negative result stands for the wrapped size_t
iter_checked_index_(it, index) ==
    IF index < it.capacity THEN it.index ELSE it.index - it.capacity

\* operator++, operator--
iter_inc(it) == [it EXCEPT !.index = it.index + 1]

iter_dec(it) ==
    [it EXCEPT !.index = (IF it.index = 0 THEN it.capacity ELSE it.index) - 1]

\* operator+=(shift)
iter_advance(it, shift) == [it EXCEPT !.index = it.index + shift]

\* operator*, operator[](index): the slot of base_ referred to
iter_deref(it) == iter_checked_index_(it, it.index)

iter_at(it, index) == iter_checked_index_(it, it.index + index)

\* operator-(a, b)
iter_diff(x, y) == x.index - y.index

\* the slots met by for (it = first; it != last; ++it) *it, cut after fuel steps
RECURSIVE Visit(_, _, _)
Visit(it, lst, fuel) ==
    IF IterEq(it, lst) \/ fuel = 0 THEN <<>>
    ELSE <<iter_deref(it)>> \o Visit(iter_inc(it), lst, fuel - 1)

\* rbegin(), rend(): std::reverse_iterator over end(), begin(); its operator*
\* is *--tmp on a copy of the iterator it holds, its operator++ is --current
RECURSIVE RVisit(_, _, _)
RVisit(cur, lst, fuel) ==
    IF IterEq(cur, lst) \/ fuel = 0 THEN <<>>
    ELSE <<iter_deref(iter_dec(cur))>> \o RVisit(iter_dec(cur), lst, fuel - 1)

\* ---- constructors -----------------------------------------------------------
\* storage_ = nullptr
NullBlk == 0

\* the block a call of allocate_ returns: none an object holds
NewBlk == Cardinality(Bufs) + 1

\* basic_circular_buffer(): no storage, capacity 0
DefaultBuffer ==
    [cap |-> 0, alloc |-> 0, blk |-> NullBlk, oi |-> 0, wi |-> 0, st |-> RawStorage]

\* basic_circular_buffer(initial_capacity)
CapacityBuffer(c) ==
    [cap |-> c, alloc |-> c, blk |-> NewBlk, oi |-> 0, wi |-> 0, st |-> RawStorage]

\* (mutant) write_index_ is left at 0
RangeBuffer_nowrite(r) ==
    [cap |-> Len(r), alloc |-> Len(r), blk |-> NewBlk, oi |-> 0, wi |-> 0,
     st |-> [i \in Slots |-> IF i < Len(r) THEN r[i + 1] ELSE NoVal]]

\* basic_circular_buffer(first, last): construct_impl_
RangeBuffer(r) ==
    [cap |-> Len(r), alloc |-> Len(r), blk |-> NewBlk, oi |-> 0, wi |-> Len(r),
     st |-> [i \in Slots |-> IF i < Len(r) THEN r[i + 1] ELSE NoVal]]

\* the ranges [first, last) a buffer is constructed from
RangeInputs == UNION {[1..n -> Vals] : n \in 0..MaxCap}

\* the objects B with every block named after the least object that holds it
Settle(B) ==
    [i \in Bufs |->
        [B[i] EXCEPT !.blk =
            IF B[i].blk = NullBlk THEN NullBlk
            ELSE CHOOSE j \in Bufs :
                    /\ B[j].blk = B[i].blk
                    /\ \A k \in Bufs : B[k].blk = B[i].blk => j <= k]]

\* last: op, the object b it was called on, the value returned (ret), whether
\* an exception left the call (threw), the argument (arg: the capacity asked of
\* resize, the length of the range given to append, the value given to
\* push_back), that range (rng), the
\* number of range elements append consumed or the number of the copy that
\* threw in resize (arg2), size() and oldest_index_ of b before a push_back or
\* a resize (psize, poi), the number of elements left constructed in a
\* released block (leaked) and whether a slot holding no element was
\* destroyed (bad)
NoOp == [op |-> "ctor", b |-> 1, ret |-> FALSE, threw |-> FALSE, arg |-> 0,
         rng |-> <<>>, arg2 |-> 0, psize |-> 0, poi |-> 0, leaked |-> 0,
         bad |-> FALSE]

HistOff == [on |-> FALSE, cap0 |-> 0, pushes |-> <<>>]

\* ---- push_back / emplace_back -------------------------------------------------
\* (mutant) overwrite whenever write_index_ >= capacity()
overwrite_step_wrapped(b) ==
    LET overwrite == b.wi >= capacity(b)
        construct_index == checked_index_(b, b.wi)
        oi1 == b.oi + 1
    IN  IF ~overwrite
        THEN [buf |-> b, overwrite |-> FALSE, index |-> construct_index]
        ELSE [buf |-> [b EXCEPT !.oi = IF oi1 = capacity(b) THEN 0 ELSE oi1,
                                !.wi = IF oi1 = capacity(b) THEN capacity(b) - 1 ELSE b.wi,
                                !.st[construct_index] = NoVal],
              overwrite |-> TRUE, index |-> construct_index]

\* (mutant) oldest_index_ is not advanced on overwrite
overwrite_step_keepoldest(b) ==
    LET overwrite == b.wi >= capacity(b) /\ b.wi - capacity(b) = b.oi
        construct_index == checked_index_(b, b.wi)
    IN  IF ~overwrite
        THEN [buf |-> b, overwrite |-> FALSE, index |-> construct_index]
        ELSE [buf |-> [b EXCEPT !.st[construct_index] = NoVal],
              overwrite |-> TRUE, index |-> construct_index]

\* (mutant) the overwritten element is not destroyed
overwrite_step_nodestroy(b) ==
    LET overwrite == b.wi >= capacity(b) /\ b.wi - capacity(b) = b.oi
        construct_index == checked_index_(b, b.wi)
        oi1 == b.oi + 1
    IN  IF ~overwrite
        THEN [buf |-> b, overwrite |-> FALSE, index |-> construct_index]
        ELSE [buf |-> [b EXCEPT !.oi = IF oi1 = capacity(b) THEN 0 ELSE oi1,
                                !.wi = IF oi1 = capacity(b) THEN capacity(b) - 1 ELSE b.wi],
              overwrite |-> TRUE, index |-> construct_index]

\* push_back_impl_ up to the construct call: the overwrite step
overwrite_step(b) ==
    LET overwrite == b.wi >= capacity(b) /\ b.wi - capacity(b) = b.oi
        construct_index == checked_index_(b, b.wi)
        oi1 == b.oi + 1
    IN  IF ~overwrite
        THEN [buf |-> b, overwrite |-> FALSE, index |-> construct_index]
        ELSE [buf |-> [b EXCEPT !.oi = IF oi1 = capacity(b) THEN 0 ELSE oi1,
                                !.wi = IF oi1 = capacity(b) THEN capacity(b) - 1 ELSE b.wi,
                                !.st[construct_index] = NoVal],
              overwrite |-> TRUE, index |-> construct_index]

\* (mutant) write_index_ is not advanced after the construction
push_back_impl_noadvance(b, v, throws) ==
    IF capacity(b) = 0
    THEN [buf |-> b, ret |-> FALSE, threw |-> FALSE, index |-> 0, bad |-> FALSE]
    ELSE LET s == overwrite_step(b)
         IN  IF throws
             THEN [buf |-> s.buf, ret |-> FALSE, threw |-> TRUE, index |-> s.index,
                   bad |-> FALSE]
             ELSE [buf |-> [s.buf EXCEPT !.st[s.index] = v],
                   ret |-> s.overwrite, threw |-> FALSE, index |-> s.index,
                   bad |-> FALSE]

\* (mutant) write_index_ is advanced before the construction
push_back_impl_early(b, v, throws) ==
    IF capacity(b) = 0
    THEN [buf |-> b, ret |-> FALSE, threw |-> FALSE, index |-> 0, bad |-> FALSE]
    ELSE LET s == overwrite_step(b)
         IN  IF throws
             THEN [buf |-> [s.buf EXCEPT !.wi = s.buf.wi + 1], ret |-> FALSE,
                   threw |-> TRUE, index |-> s.index, bad |-> FALSE]
             ELSE [buf |-> [s.buf EXCEPT !.st[s.index] = v, !.wi = s.buf.wi + 1],
                   ret |-> s.overwrite, threw |-> FALSE, index |-> s.index,
                   bad |-> FALSE]

\* push_back_impl_(args...): the buffer after the call, the value returned and
\* whether the construction threw
push_back_impl_(b, v, throws) ==
    IF capacity(b) = 0
    THEN [buf |-> b, ret |-> FALSE, threw |-> FALSE, index |-> 0, bad |-> FALSE]
    ELSE LET s == overwrite_step(b)
             bad == s.overwrite /\ b.st[s.index] = NoVal
         IN  IF throws
             THEN [buf |-> s.buf, ret |-> FALSE, threw |-> TRUE, index |-> s.index,
                   bad |-> bad]
             ELSE [buf |-> [s.buf EXCEPT !.st[s.index] = v, !.wi = s.buf.wi + 1],
                   ret |-> s.overwrite, threw |-> FALSE, index |-> s.index,
                   bad |-> bad]

\* any call on buffer 1 other than a successful push_back ends the history
Untrack(id) == IF id = 1 THEN HistOff ELSE hist

Record(op, id, ret, threw, arg) ==
    [op |-> op, b |-> id, ret |-> ret, threw |-> threw, arg |-> arg,
     rng |-> <<>>, arg2 |-> 0, psize |-> 0, poi |-> 0, leaked |-> 0,
     bad |-> FALSE]

PushBack(id, V) ==
    \E v \in V, throws \in BOOLEAN, lands \in BOOLEAN :
        LET b == bufs[id]
            r == push_back_impl_(b, v, throws)
            oob == capacity(b) > 0 /\ r.index >= b.alloc
        IN  /\ oob \/ lands
            /\ bufs' = IF oob /\ ~lands THEN bufs ELSE Settle([bufs EXCEPT ![id] = r.buf])
            /\ ub' = IF oob THEN "out_of_block" ELSE "none"
            /\ last' = [Record("push_back", id, r.ret, r.threw, v)
                           EXCEPT !.bad = r.bad, !.psize = size(b), !.poi = b.oi]
            /\ hist' = IF id # 1 THEN hist
                       ELSE IF hist.on /\ ~r.threw /\ ~oob /\ Len(hist.pushes) < MaxPush
                       THEN [hist EXCEPT !.pushes = Append(@, [v |-> v, ret |-> r.ret])]
                       ELSE HistOff

\* ---- pop_front / pop_back ---------------------------------------------------
\* (mutant) oldest_index_ is not wrapped at capacity()
pop_front_nowrap(b) ==
    [b EXCEPT !.st[b.oi] = NoVal, !.oi = b.oi + 1]

\* (mutant) write_index_ is not taken back when oldest_index_ wraps
pop_front_keepwrite(b) ==
    LET oi1 == b.oi + 1
    IN  [b EXCEPT !.st[b.oi] = NoVal,
                  !.oi = IF oi1 = capacity(b) THEN 0 ELSE oi1]

\* called on a non-empty buffer only (the caller's precondition)
pop_front(b) ==
    LET oi1 == b.oi + 1
    IN  [b EXCEPT !.st[b.oi] = NoVal,
                  !.oi = IF oi1 = capacity(b) THEN 0 ELSE oi1,
                  !.wi = IF oi1 = capacity(b) THEN b.wi - capacity(b) ELSE b.wi]

\* (mutant) write_index_ is not decremented
pop_back_keepwrite(b) ==
    [b EXCEPT !.st[checked_index_(b, b.wi - 1)] = NoVal]

pop_back(b) ==
    [b EXCEPT !.st[checked_index_(b, b.wi - 1)] = NoVal, !.wi = b.wi - 1]

PopFront(id) ==
    LET b == bufs[id]
    IN  /\ size(b) > 0
        /\ bufs' = Settle([bufs EXCEPT ![id] = pop_front(b)])
        /\ ub' = IF b.oi >= b.alloc THEN "out_of_block" ELSE "none"
        /\ last' = [Record("pop_front", id, FALSE, FALSE, 0)
                       EXCEPT !.bad = (b.st[b.oi] = NoVal)]
        /\ hist' = Untrack(id)

PopBack(id) ==
    LET b == bufs[id]
        index == checked_index_(b, b.wi - 1)
    IN  /\ size(b) > 0
        /\ bufs' = Settle([bufs EXCEPT ![id] = pop_back(b)])
        /\ ub' = IF index >= b.alloc THEN "out_of_block" ELSE "none"
        /\ last' = [Record("pop_back", id, FALSE, FALSE, 0)
                       EXCEPT !.bad = (b.st[index] = NoVal)]
        /\ hist' = Untrack(id)

\* ---- resize ------------------------------------------------------------------
\* (mutant) the elements constructed before the copy that throws stay
uninitialized_copy_noclean(src, first, n, dst, at, fail) ==
    IF fail >= 1 /\ fail <= n
    THEN [threw |-> TRUE,
          st |-> [i \in Slots |->
                    IF at <= i /\ i < at + fail - 1 THEN src[first + (i - at)]
                    ELSE dst[i]]]
    ELSE [threw |-> FALSE,
          st |-> [i \in Slots |->
                    IF at <= i /\ i < at + n THEN src[first + (i - at)] ELSE dst[i]]]

\* std::uninitialized_copy of n elements src[first ..] to dst[at ..]; the fail-th
\* copy construction throws (fail = 0, or fail > n: none does), and then the
\* elements it constructed are destroyed again before the exception leaves
uninitialized_copy(src, first, n, dst, at, fail) ==
    IF fail >= 1 /\ fail <= n
    THEN [threw |-> TRUE, st |-> dst]
    ELSE [threw |-> FALSE,
          st |-> [i \in Slots |->
                    IF at <= i /\ i < at + n THEN src[first + (i - at)] ELSE dst[i]]]

\* (mutant) the copy starts at slot 0 instead of oldest_index_
safe_data_copy_impl_from0(new_storage, new_capacity, b, fail) ==
    LET n == Min(new_capacity, size(b))
        c == uninitialized_copy(b.st, 0, n, new_storage, 0, fail)
    IN  [threw |-> c.threw, st |-> c.st, ret |-> n]

\* (mutant) the first chunk is not destroyed when the copy of the second throws
safe_data_copy_impl_nocatch(new_storage, new_capacity, b, fail) ==
    LET n == Min(new_capacity, size(b))
    IN  IF b.oi + n <= capacity(b)
        THEN LET c == uninitialized_copy(b.st, b.oi, n, new_storage, 0, fail)
             IN  [threw |-> c.threw, st |-> c.st, ret |-> n]
        ELSE LET copied == capacity(b) - b.oi
                 c1 == uninitialized_copy(b.st, b.oi, copied, new_storage, 0, fail)
                 c2 == uninitialized_copy(b.st, 0, n - copied, c1.st, copied,
                                          fail - copied)
             IN  IF c1.threw
                 THEN [threw |-> TRUE, st |-> c1.st, ret |-> 0]
                 ELSE [threw |-> c2.threw, st |-> c2.st, ret |-> n]

\* safe_data_copy_impl_(new_storage, new_capacity, b): new_storage afterwards,
\* the write index returned, and whether a copy threw
safe_data_copy_impl_(new_storage, new_capacity, b, fail) ==
    LET n == Min(new_capacity, size(b))
    IN  IF b.oi + n <= capacity(b)
        THEN LET c == uninitialized_copy(b.st, b.oi, n, new_storage, 0, fail)
             IN  [threw |-> c.threw, st |-> c.st, ret |-> n]
        ELSE LET copied == capacity(b) - b.oi
                 c1 == uninitialized_copy(b.st, b.oi, copied, new_storage, 0, fail)
                 c2 == uninitialized_copy(b.st, 0, n - copied, c1.st, copied,
                                          fail - copied)
             IN  IF c1.threw
                 THEN [threw |-> TRUE, st |-> c1.st, ret |-> 0]
                 ELSE IF c2.threw
                 THEN [threw |-> TRUE,
                       st |-> [i \in Slots |-> IF i < copied THEN NoVal ELSE c2.st[i]],
                       ret |-> 0]
                 ELSE [threw |-> FALSE, st |-> c2.st, ret |-> n]

\* noexcept_data_move_impl_: std::move of the same two chunks into the new
\* block, nothing throws (T trivially copyable: the assignment into the raw
\* block gives the slot its element)
noexcept_data_move_impl_(new_storage, new_capacity, b) ==
    safe_data_copy_impl_(new_storage, new_capacity, b, 0)

\* resize_impl_(capacity, copy_method)
resize_impl_(b, new_capacity, nothrow_move, fail, bad_alloc) ==
    IF bad_alloc
    THEN [buf |-> b, threw |-> TRUE, leaked |-> 0]
    ELSE LET c == IF nothrow_move
                  THEN noexcept_data_move_impl_(RawStorage, new_capacity, b)
                  ELSE safe_data_copy_impl_(RawStorage, new_capacity, b, fail)
             old == destroy_(b.st, capacity(b), b.oi, b.wi)
         IN  IF c.threw
             THEN [buf |-> b, threw |-> TRUE,
                   leaked |-> Cardinality({i \in Slots : c.st[i] # NoVal})]
             ELSE [buf |-> [b EXCEPT !.wi = c.ret, !.oi = 0, !.st = c.st,
                                     !.alloc = new_capacity, !.blk = NewBlk],
                   threw |-> FALSE,
                   leaked |-> Cardinality({i \in Slots : old[i] # NoVal})]

Resize(id, maxcap) ==
    \E k \in 0..maxcap, nothrow_move \in BOOLEAN, fail \in 0..maxcap,
       bad_alloc \in BOOLEAN :
        LET b == bufs[id]
            r == resize_impl_(b, k, nothrow_move, fail, bad_alloc)
        IN  /\ fail <= Min(k, size(b))
            /\ nothrow_move => fail = 0
            /\ bad_alloc => fail = 0 /\ ~nothrow_move
            /\ bufs' = Settle([bufs EXCEPT ![id] = r.buf])
            /\ ub' = "none"
            /\ last' = [Record("resize", id, FALSE, r.threw, k)
                           EXCEPT !.leaked = r.leaked, !.psize = size(b),
                                  !.poi = b.oi, !.arg2 = fail]
            /\ hist' = Untrack(id)

\* ---- append -------------------------------------------------------------------
\* the input ranges given to append on b: every range of at most maxlen elements
\* over V whose elements past the free slots of b, if any, repeat its last
\* element before them (or the least value)
RangesFor(b, V, maxlen) ==
    LET free == IF size(b) < capacity(b) THEN capacity(b) - size(b) ELSE 0
        least == CHOOSE v \in V : \A w \in V : v <= w
    IN  UNION {{[i \in 1..n |-> IF i <= Len(h) THEN h[i]
                                ELSE IF Len(h) = 0 THEN least ELSE h[Len(h)]] :
                  h \in [1..Min(n, free) -> V]} : n \in 0..maxlen}

\* (mutant) the loop does not stop when the buffer is full
RECURSIVE append_loop_nostop(_, _, _, _, _)
append_loop_nostop(b, rng, i, fail, oob) ==
    IF i > Len(rng)
    THEN [buf |-> b, next |-> i, threw |-> FALSE, oob |-> oob]
    ELSE LET r == push_back_impl_(b, rng[i], fail = i)
         IN  IF r.threw
             THEN [buf |-> r.buf, next |-> i + 1, threw |-> TRUE, oob |-> oob]
             ELSE append_loop_nostop(r.buf, rng, i + 1, fail,
                                     oob \/ r.index >= b.alloc)

\* the loop of append_impl_ from range position i on: push_back(*first++) while
\* first != last && size() < capacity(); the construction of range element
\* number fail throws. oob: a push_back constructed outside the block
RECURSIVE append_loop(_, _, _, _, _)
append_loop(b, rng, i, fail, oob) ==
    IF i > Len(rng) \/ ~(size(b) < capacity(b))
    THEN [buf |-> b, next |-> i, threw |-> FALSE, oob |-> oob]
    ELSE LET r == push_back_impl_(b, rng[i], fail = i)
         IN  IF r.threw
             THEN [buf |-> r.buf, next |-> i + 1, threw |-> TRUE, oob |-> oob]
             ELSE append_loop(r.buf, rng, i + 1, fail, oob \/ r.index >= b.alloc)

\* append_impl_(first, last): on an exception destroy_(storage_, capacity(),
\* old_write, write_index_) and write_index_ = old_write. runaway: the first
\* std::destroy of destroy_ is given a range that never ends; unwound: the
\* catch block ran to its end all the same
append_impl_(b, rng, fail, unwound) ==
    LET old_write == b.wi
        l == append_loop(b, rng, 1, fail, FALSE)
        runaway == l.threw /\ destroy_runaway(capacity(b), old_write, l.buf.wi)
    IN  [buf |-> IF l.threw /\ unwound
                 THEN [l.buf EXCEPT
                          !.st = destroy_(l.buf.st, capacity(l.buf), old_write, l.buf.wi),
                          !.wi = old_write]
                 ELSE l.buf,
         next |-> l.next, threw |-> l.threw, oob |-> l.oob, runaway |-> runaway]

\* fail: the number of the range element whose copy throws (0: none); the
\* elements from that one on are never stored, they too repeat the element
\* before them (or the least value)
Append_(id, V) ==
    \E rng \in RangesFor(bufs[id], V, MaxAppend) :
      \E fail \in {k \in 0..Len(rng) :
                     k > 0 => \A i \in k..Len(rng) :
                                 rng[i] = IF k = 1
                                          THEN CHOOSE v \in V : \A w \in V : v <= w
                                          ELSE rng[k - 1]} :
        LET b == bufs[id]
            r == append_impl_(b, rng, fail, TRUE)
        IN  /\ fail > 0 => r.threw
            /\ \E unwound \in (IF r.runaway THEN BOOLEAN ELSE {TRUE}) :
                  bufs' = Settle([bufs EXCEPT ![id] =
                                     IF unwound THEN r.buf
                                     ELSE append_impl_(b, rng, fail, FALSE).buf])
            /\ ub' = IF r.runaway THEN "destroy_range"
                      ELSE IF r.oob THEN "out_of_block" ELSE "none"
            /\ last' = [Record("append", id, FALSE, r.threw, Len(rng))
                           EXCEPT !.arg2 = r.next - 1, !.bad = r.runaway,
                                  !.rng = rng]
            /\ hist' = Untrack(id)

\* (mutant) the range is pushed element by element, overwriting the oldest
CapRangeBuffer_overwrite(c, r) ==
    append_loop_nostop(CapacityBuffer(c), r, 1, 0, FALSE).buf

\* basic_circular_buffer(initial_capacity, first, last): the capacity
\* constructor, then append(first, last)
CapRangeBuffer(c, r) == append_impl_(CapacityBuffer(c), r, 0, TRUE).buf

\* ---- copy / move / swap ---------------------------------------------------------
\* (mutant) the members of other are copied, storage_ included
copy_ctor_shallow(other, fail, bad_alloc) ==
    [buf |-> other, threw |-> FALSE, leaked |-> 0]

\* basic_circular_buffer(basic_circular_buffer const& other)
copy_ctor(other, fail, bad_alloc) ==
    IF bad_alloc
    THEN [buf |-> DefaultBuffer, threw |-> TRUE, leaked |-> 0]
    ELSE LET c == safe_data_copy_impl_(RawStorage, capacity(other), other, fail)
         IN  IF c.threw
             THEN [buf |-> DefaultBuffer, threw |-> TRUE,
                   leaked |-> Cardinality({i \in Slots : c.st[i] # NoVal})]
             ELSE [buf |-> [cap |-> capacity(other), alloc |-> capacity(other),
                            blk |-> NewBlk, oi |-> 0, wi |-> c.ret, st |-> c.st],
                   threw |-> FALSE, leaked |-> 0]

\* ~basic_circular_buffer(): the number of elements it leaves constructed
dtor_leak(b) ==
    Cardinality({i \in Slots : destroy_(b.st, capacity(b), b.oi, b.wi)[i] # NoVal})

\* (mutant) oldest_index_ is not reset on the in-place path
copy_assign_noreset(this, other, fail, bad_alloc) ==
    IF capacity(this) < size(other)
    THEN LET tmp == copy_ctor(other, fail, bad_alloc)
         IN  IF tmp.threw
             THEN [buf |-> this, threw |-> TRUE, leaked |-> tmp.leaked]
             ELSE [buf |-> tmp.buf, threw |-> FALSE, leaked |-> dtor_leak(this)]
    ELSE LET cleared == [this EXCEPT
                            !.st = destroy_(this.st, capacity(this), this.oi, this.wi),
                            !.wi = 0]
             c == safe_data_copy_impl_(cleared.st, capacity(this), other, fail)
         IN  [buf |-> [cleared EXCEPT !.st = c.st, !.wi = c.ret],
              threw |-> c.threw, leaked |-> 0]

\* operator=(basic_circular_buffer const& other), this # &other
copy_assign(this, other, fail, bad_alloc) ==
    IF capacity(this) < size(other)
    THEN LET tmp == copy_ctor(other, fail, bad_alloc)
         IN  IF tmp.threw
             THEN [buf |-> this, threw |-> TRUE, leaked |-> tmp.leaked]
             ELSE [buf |-> tmp.buf, threw |-> FALSE, leaked |-> dtor_leak(this)]
    ELSE LET cleared == [this EXCEPT
                            !.st = destroy_(this.st, capacity(this), this.oi, this.wi),
                            !.wi = 0, !.oi = 0]
             c == safe_data_copy_impl_(cleared.st, capacity(this), other, fail)
         IN  [buf |-> [cleared EXCEPT !.st = c.st,
                                      !.wi = IF c.threw THEN 0 ELSE c.ret],
              threw |-> c.threw, leaked |-> 0]

\* b = a
CopyAssign(id, src) ==
    \E fail \in 0..size(bufs[src]), bad_alloc \in BOOLEAN :
        LET this == bufs[id]
            other == bufs[src]
            r == copy_assign(this, other, fail, bad_alloc)
            in_place == capacity(this) >= size(other)
        IN  /\ id # src
            /\ fail <= size(other)
            /\ bad_alloc => fail = 0 /\ ~in_place
            /\ bufs' = Settle([bufs EXCEPT ![id] = r.buf])
            /\ ub' = IF in_place /\ size(other) > this.alloc
                      THEN "out_of_block" ELSE "none"
            /\ last' = [Record("copy_assign", id, in_place, r.threw, src)
                           EXCEPT !.leaked = r.leaked]
            /\ hist' = Untrack(id)

\* a = a, a = std::move(a): this == &other, nothing is done
SelfAssign(id) ==
    /\ bufs' = bufs
    /\ ub' = "none"
    /\ last' = Record("self_assign", id, FALSE, FALSE, id)
    /\ hist' = Untrack(id)

\* (mutant) cpair_ is not swapped
swap_nocap(this, other) ==
    [this |-> [other EXCEPT !.cap = this.cap],
     other |-> [this EXCEPT !.cap = other.cap]]

\* swap(other): cpair_, storage_, write_index_ and oldest_index_ change places
swap(this, other) == [this |-> other, other |-> this]

Swap(id, src) ==
    LET r == swap(bufs[id], bufs[src])
    IN  /\ id # src
        /\ bufs' = Settle([bufs EXCEPT ![id] = r.this, ![src] = r.other])
        /\ ub' = "none"
        /\ last' = Record("swap", id, FALSE, FALSE, src)
        /\ hist' = HistOff

\* operator=(basic_circular_buffer&& other) between two objects, this # &other:
\* swap(other)
MoveAssign(id, src) ==
    LET r == swap(bufs[id], bufs[src])
    IN  /\ id # src
        /\ bufs' = Settle([bufs EXCEPT ![id] = r.this, ![src] = r.other])
        /\ ub' = "none"
        /\ last' = Record("move_assign_from", id, FALSE, FALSE, src)
        /\ hist' = HistOff

\* b = std::move(a) is swap(a); a temporary a is destroyed afterwards. The
\* object id is assigned from a fresh temporary: basic_circular_buffer(c),
\* basic_circular_buffer(first, last) of the first elements of genvec, or
\* basic_circular_buffer()
\* genvec(n): the elements 0, 1, ... n - 1, taken within the values of the model
genvec(n) == [i \in 1..n |-> ((i - 1) % NumVals) + 1]

Temporaries(maxcap) ==
    {CapacityBuffer(c) : c \in 0..maxcap} \cup
    {RangeBuffer(genvec(n)) : n \in 0..maxcap}

MoveAssignTemp(id, maxcap) ==
    \E tmp \in Temporaries(maxcap) :
        LET r == swap(bufs[id], tmp)
        IN  /\ bufs' = Settle([bufs EXCEPT ![id] = r.this])
            /\ ub' = "none"
            /\ last' = [Record("move_assign", id, FALSE, FALSE, 0)
                           EXCEPT !.leaked = dtor_leak(r.other)]
            /\ hist' = Untrack(id)

\* the object id is destroyed and constructed anew as a copy of src
CopyConstruct(id, src) ==
    \E fail \in 0..size(bufs[src]), bad_alloc \in BOOLEAN :
        LET r == copy_ctor(bufs[src], fail, bad_alloc)
        IN  /\ id # src
            /\ fail <= size(bufs[src])
            /\ bad_alloc => fail = 0
            /\ bufs' = Settle([bufs EXCEPT ![id] = r.buf])
            /\ ub' = "none"
            /\ last' = [Record("copy_ctor", id, FALSE, r.threw, src)
                           EXCEPT !.leaked = r.leaked + dtor_leak(bufs[id])]
            /\ hist' = Untrack(id)

\* the object id is destroyed and move-constructed from src: swap(other) on a
\* default-initialised object
MoveConstruct(id, src) ==
    LET r == swap(DefaultBuffer, bufs[src])
    IN  /\ id # src
        /\ bufs' = Settle([bufs EXCEPT ![id] = r.this, ![src] = r.other])
        /\ ub' = "none"
        /\ last' = [Record("move_ctor", id, FALSE, FALSE, src)
                       EXCEPT !.leaked = dtor_leak(bufs[id])]
        /\ hist' = HistOff

\* ---- one buffer object ---------------------------------------------------------
\* no operation follows undefined behaviour
Running == ub = "none"

\* a thread that is in no call
Idle ==
    [pc |-> "idle", op |-> "none", arg |-> 0, ret |-> FALSE, got |-> <<>>,
     pre |-> <<>>, snap |-> [oi |-> 0, wi |-> 0], woke |-> FALSE,
     threw |-> FALSE, val |-> 0, nxt |-> 0]

\* no thread has called the synchronized buffer
Unsync ==
    /\ mutex = [b \in Bufs |-> NoThread]
    /\ cv = {}
    /\ thr = [t \in Threads |-> Idle]
    /\ trace = [pushed |-> 0, popped |-> <<>>, prodcons |-> TRUE]

\* an operation of basic_circular_buffer: no mutex, no condition variable
Plain == UNCHANGED <<mutex, cv, thr, trace>>

\* the buffer as one of its constructors leaves it
Init ==
    /\ ub = "none"
    /\ Unsync
    /\ \/ /\ \E c \in 0..MaxCap :
                bufs = Settle([b \in Bufs |->
                                  IF b = 1 THEN CapacityBuffer(c) ELSE DefaultBuffer])
          /\ last = NoOp
          /\ hist = [on |-> TRUE, cap0 |-> capacity(bufs[1]), pushes |-> <<>>]
       \/ /\ \E r \in RangeInputs :
                /\ bufs = Settle([b \in Bufs |->
                                     IF b = 1 THEN RangeBuffer(r) ELSE DefaultBuffer])
                /\ last = [NoOp EXCEPT !.op = "range_ctor", !.rng = r,
                                       !.arg = Len(r)]
          /\ hist = HistOff
       \/ /\ \E c \in 0..MaxCap, r \in RangeInputs :
                /\ bufs = Settle([b \in Bufs |->
                                     IF b = 1 THEN CapRangeBuffer(c, r)
                                     ELSE DefaultBuffer])
                /\ last = [NoOp EXCEPT !.op = "cap_range_ctor", !.rng = r,
                                       !.arg = c]
          /\ hist = HistOff

\* an operation on buffer 1 leaves buffer 2 alone
Frame1 == bufs'[2] = bufs[2]

Do_push_back == Running /\ PushBack(1, Vals) /\ Frame1 /\ Plain
Do_pop_front == Running /\ PopFront(1) /\ Frame1 /\ Plain
Do_pop_back == Running /\ PopBack(1) /\ Frame1 /\ Plain
Do_resize == Running /\ Resize(1, MaxCap) /\ Frame1 /\ Plain
Do_append == Running /\ Append_(1, Vals) /\ Frame1 /\ Plain
Do_self_assign == Running /\ SelfAssign(1) /\ Frame1 /\ Plain
Do_move_assign == Running /\ MoveAssignTemp(1, MaxCap) /\ Frame1 /\ Plain

Next ==
    \/ Do_push_back
    \/ Do_pop_front
    \/ Do_pop_back
    \/ Do_resize
    \/ Do_append
    \/ Do_self_assign
    \/ Do_move_assign

Spec == Init /\ [][Next]_vars

\* ---- two buffer objects, within the smaller capacity bound --------------------
Init2 ==
    /\ \E c \in 0..MaxCap2 :
          bufs = Settle([b \in Bufs |->
                            IF b = 1 THEN CapacityBuffer(c) ELSE DefaultBuffer])
    /\ last = NoOp
    /\ hist = HistOff
    /\ ub = "none"
    /\ Unsync

Two_push_back == Running /\ PushBack(1, Vals) /\ Plain
Two_pop_front == Running /\ PopFront(1) /\ Plain
Two_pop_back == Running /\ PopBack(1) /\ Plain
Two_resize == Running /\ Resize(1, MaxCap2) /\ Plain
Two_append == Running /\ Append_(1, Vals) /\ Plain
Two_self_assign == Running /\ SelfAssign(1) /\ Plain
Two_move_assign == Running /\ MoveAssignTemp(1, MaxCap2) /\ Plain
Two_copy_assign ==
    Running /\ (\E id \in Bufs, src \in Bufs : CopyAssign(id, src)) /\ Plain
Two_move_assign_from ==
    Running /\ (\E id \in Bufs, src \in Bufs : MoveAssign(id, src)) /\ Plain
Two_swap ==
    Running /\ (\E id \in Bufs, src \in Bufs : Swap(id, src)) /\ Plain
Two_copy_ctor ==
    Running /\ (\E id \in Bufs, src \in Bufs : CopyConstruct(id, src)) /\ Plain
Two_move_ctor ==
    Running /\ (\E id \in Bufs, src \in Bufs : MoveConstruct(id, src)) /\ Plain

Next2 ==
    \/ Two_push_back
    \/ Two_pop_front
    \/ Two_pop_back
    \/ Two_resize
    \/ Two_append
    \/ Two_self_assign
    \/ Two_move_assign
    \/ Two_copy_assign
    \/ Two_move_assign_from
    \/ Two_swap
    \/ Two_copy_ctor
    \/ Two_move_ctor

Spec2 == Init2 /\ [][Next2]_vars

\* ---- circular_buffer: the synchronized wrapper (circular_buffer.h) -------------
\* Buffer 1 is the base of a circular_buffer; every thread calls it. A thread is
\*   pc   : "idle"    in no call
\*          "locked"  owns m_, the body of its call is next
\*          "write"   push_back / emplace_back: cursors read, construction next
\*          "notify"  push_back / emplace_back / append: cv_.notify_* is next
\*          "blocked" inside cv_.wait, m_ released
\*          "woken"   notified (or woken spuriously), waits for m_
\*          "unlock"  try_pop / wait_pop / wait_npop: the return (or the
\*                    exception leaving the call) is next
\*          "holding" owns m_ through the std::unique_lock that lock(),
\*                    size(), capacity() or empty() returned
\*          "relock"  owns m_ and locks it once more
\*          "try2"    std::scoped_lock of operator= / swap: owns one of the
\*                    two mutexes, try_lock of the other is next
\*          "lock2"   std::scoped_lock: backed off, owns neither, lock() is next
\*          "locked2" owns both mutexes, the body of operator= / swap is next
\*          "copying" copy constructor: cursors of the source read, its
\*                    elements are read next
\*   op, arg : the call and its argument (the length of the range given to
\*          append, the count given to wait_npop)
\*   ret, got : what the call returns: try_pop's flag, the elements taken out
\*   threw : the move of an element threw and the exception leaves the call
\*   val  : the value size(), capacity() or empty() returned with its lock
\*          (empty(): 1 for true, 0 for false); the capacity() a copy
\*          constructor read
\*   nxt  : the mutex std::lock takes or tries next
\*   pre  : the logical sequence of the buffer when the call began to take
\*          elements out
\*   snap : the cursors push_back_impl_ read
\*   woke : the call has been blocked in cv_.wait
\* The elements pushed are 1, 2, 3 ... in the order of their construction.
PushOps == {"push_back", "emplace_back"}
PopOps == {"try_pop", "wait_pop", "wait_npop"}
SelfOps == {"copy_assign", "move_assign", "swap"}
LockOps == {"lock", "size", "capacity", "empty"}

\* (mutant) the mutex is taken whoever owns it
Call_nolock(t, op, arg) ==
    /\ thr[t].pc = "idle"
    /\ op \in PushOps => arg = 0 /\ trace.pushed < MaxPush3
    /\ op = "append" => arg <= MaxAppend /\ trace.pushed + arg <= MaxPush3
    /\ op \in {"try_pop", "wait_pop"} => arg = 0
    /\ op = "wait_npop" => arg <= MaxCount
    /\ mutex' = [mutex EXCEPT ![1] = t]
    /\ thr' = [thr EXCEPT ![t] = [Idle EXCEPT !.pc = "locked", !.op = op,
                                              !.arg = arg]]
    /\ trace' = [trace EXCEPT !.prodcons = @ /\ op \in {"push_back", "wait_pop"}]
    /\ UNCHANGED <<bufs, last, hist, ub, cv>>

\* std::lock_guard<std::mutex> lg(m_) at the head of append, push_back,
\* emplace_back, try_pop, wait_pop and wait_npop
Call(t, op, arg) ==
    /\ thr[t].pc = "idle"
    /\ mutex[1] = NoThread
    /\ op \in PushOps => arg = 0 /\ trace.pushed < MaxPush3
    /\ op = "append" => arg <= MaxAppend /\ trace.pushed + arg <= MaxPush3
    /\ op \in {"try_pop", "wait_pop"} => arg = 0
    /\ op = "wait_npop" => arg <= MaxCount
    /\ mutex' = [mutex EXCEPT ![1] = t]
    /\ thr' = [thr EXCEPT ![t] = [Idle EXCEPT !.pc = "locked", !.op = op,
                                              !.arg = arg]]
    /\ trace' = [trace EXCEPT !.prodcons = @ /\ op \in {"push_back", "wait_pop"}]
    /\ UNCHANGED <<bufs, last, hist, ub, cv>>

\* push_back_impl_ reads write_index_ and oldest_index_ ...
PushRead(t) ==
    /\ thr[t].pc = "locked" /\ thr[t].op \in PushOps
    /\ thr' = [thr EXCEPT ![t].pc = "write",
                          ![t].snap = [oi |-> bufs[1].oi, wi |-> bufs[1].wi]]
    /\ UNCHANGED <<bufs, last, hist, ub, mutex, cv, trace>>

\* ... and constructs the element and stores the cursors
PushWrite(t) ==
    LET b == [bufs[1] EXCEPT !.oi = thr[t].snap.oi, !.wi = thr[t].snap.wi]
        r == push_back_impl_(b, trace.pushed + 1, FALSE)
    IN  /\ thr[t].pc = "write"
        /\ bufs' = Settle([bufs EXCEPT ![1] = r.buf])
        /\ trace' = [trace EXCEPT !.pushed = @ + 1]
        /\ thr' = [thr EXCEPT ![t].pc = "notify"]
        /\ UNCHANGED <<last, hist, ub, mutex, cv>>

\* base()->append(first, last)
AppendBody(t) ==
    LET rng == [i \in 1..thr[t].arg |-> trace.pushed + i]
        r == append_impl_(bufs[1], rng, 0, TRUE)
    IN  /\ thr[t].pc = "locked" /\ thr[t].op = "append"
        /\ bufs' = Settle([bufs EXCEPT ![1] = r.buf])
        /\ trace' = [trace EXCEPT !.pushed = @ + (r.next - 1)]
        /\ thr' = [thr EXCEPT ![t].pc = "notify"]
        /\ UNCHANGED <<last, hist, ub, mutex, cv>>

\* cv_.notify_all() of append, cv_.notify_one() of push_back / emplace_back,
\* then the lock_guard releases m_ and the call returns
Notify(t) ==
    /\ thr[t].pc = "notify"
    /\ \E W \in (IF thr[t].op = "append" \/ cv = {} THEN {cv}
                 ELSE {{w} : w \in cv}) :
          /\ cv' = cv \ W
          /\ thr' = [u \in Threads |->
                        IF u = t THEN Idle
                        ELSE IF u \in W THEN [thr[u] EXCEPT !.pc = "woken"]
                        ELSE thr[u]]
    /\ mutex' = [mutex EXCEPT ![1] = NoThread]
    /\ UNCHANGED <<bufs, last, hist, ub, trace>>

\* value = std::move(base()->front()); base()->pop_front(); on a buffer that
\* holds no element both are undefined: the value is whatever the slot holds
\* and a write index below 0 stands for the size_t it wraps to
TakeFront(t, b) ==
    /\ bufs' = Settle([bufs EXCEPT ![1] = pop_front(b)])
    /\ ub' = IF size(b) = 0 THEN "pop_empty" ELSE "none"
    /\ trace' = [trace EXCEPT !.popped = Append(@, front(b))]
    /\ thr' = [thr EXCEPT ![t].pc = "unlock", ![t].ret = TRUE,
                          ![t].got = <<front(b)>>,
                          ![t].pre = IF size(b) = 0 THEN <<>> ELSE Content(b)]
    /\ UNCHANGED <<last, hist, mutex, cv>>

\* (mutant) the handler of wait_pop rethrows and leaves the element in place
ThrowFront_keep(t, b, popped) ==
    /\ ub' = IF size(b) = 0 THEN "pop_empty" ELSE "none"
    /\ thr' = [thr EXCEPT ![t].pc = "unlock", ![t].threw = TRUE,
                          ![t].pre = IF size(b) = 0 THEN <<>> ELSE Content(b)]
    /\ UNCHANGED <<bufs, last, hist, mutex, cv, trace>>

\* the move of base()->front() throws: catch (...) { base()->pop_front();
\* throw; } where the call has a handler (popped), the exception alone where
\* it has none; the element removed is counted among those taken out
ThrowFront(t, b, popped) ==
    /\ bufs' = IF popped THEN Settle([bufs EXCEPT ![1] = pop_front(b)]) ELSE bufs
    /\ ub' = IF size(b) = 0 THEN "pop_empty" ELSE "none"
    /\ trace' = IF popped THEN [trace EXCEPT !.popped = Append(@, front(b))]
                ELSE trace
    /\ thr' = [thr EXCEPT ![t].pc = "unlock", ![t].threw = TRUE,
                          ![t].pre = IF size(b) = 0 THEN <<>> ELSE Content(b)]
    /\ UNCHANGED <<last, hist, mutex, cv>>

\* try_pop(T&) has the handler, try_pop() returning std::shared_ptr has none
TryPop(t) ==
    LET b == bufs[1]
    IN  /\ thr[t].pc = "locked" /\ thr[t].op = "try_pop"
        /\ IF empty(b)
           THEN /\ thr' = [thr EXCEPT ![t].pc = "unlock", ![t].ret = FALSE,
                                      ![t].pre = Content(b)]
                /\ UNCHANGED <<bufs, last, hist, ub, mutex, cv, trace>>
           ELSE \/ TakeFront(t, b)
                \/ \E popped \in BOOLEAN : ThrowFront(t, b, popped)

\* cv_.wait(lg, [this] { return !base()->empty(); }) with the predicate false:
\* m_ is released and the thread blocks, in one step
Block(t) ==
    /\ mutex' = [mutex EXCEPT ![1] = NoThread]
    /\ cv' = cv \cup {t}
    /\ thr' = [thr EXCEPT ![t].pc = "blocked", ![t].woke = TRUE]
    /\ UNCHANGED <<bufs, last, hist, ub, trace>>

\* wait_pop (both overloads)
WaitPop(t) ==
    LET b == bufs[1]
    IN  /\ thr[t].pc = "locked" /\ thr[t].op = "wait_pop"
        /\ IF empty(b) THEN Block(t)
           ELSE TakeFront(t, b) \/ ThrowFront(t, b, TRUE)

\* (mutant) the loop takes the newest element
RECURSIVE drain_lifo(_, _, _, _, _)
drain_lifo(b, read, count, got, fail) ==
    IF read < count /\ ~empty(b)
    THEN IF size(b) = 0
         THEN [buf |-> pop_front(b), got |-> Append(got, front(b)),
               lost |-> <<>>, bad |-> TRUE, threw |-> FALSE]
         ELSE IF Len(got) + 1 = fail
         THEN [buf |-> pop_back(b), got |-> got, lost |-> <<back(b)>>,
               bad |-> FALSE, threw |-> TRUE]
         ELSE drain_lifo(pop_back(b), read, count, Append(got, back(b)), fail)
    ELSE [buf |-> b, got |-> got, lost |-> <<>>, bad |-> FALSE, threw |-> FALSE]

\* the loop of wait_npop, while (read < count && !base()->empty()): read is
\* not changed in it. It stops where pop_front is undefined (bad), and where
\* the move of the fail-th element throws: that element is popped and lost
RECURSIVE drain(_, _, _, _, _)
drain(b, read, count, got, fail) ==
    IF read < count /\ ~empty(b)
    THEN IF size(b) = 0
         THEN [buf |-> pop_front(b), got |-> Append(got, front(b)),
               lost |-> <<>>, bad |-> TRUE, threw |-> FALSE]
         ELSE IF Len(got) + 1 = fail
         THEN [buf |-> pop_front(b), got |-> got, lost |-> <<front(b)>>,
               bad |-> FALSE, threw |-> TRUE]
         ELSE drain(pop_front(b), read, count, Append(got, front(b)), fail)
    ELSE [buf |-> b, got |-> got, lost |-> <<>>, bad |-> FALSE, threw |-> FALSE]

\* wait_npop(first, count)
WaitNpop(t) ==
    LET b == bufs[1]
    IN  /\ thr[t].pc = "locked" /\ thr[t].op = "wait_npop"
        /\ IF empty(b)
           THEN Block(t)
           ELSE \E fail \in 0..capacity(b) :
                  LET d == drain(b, 0, thr[t].arg, <<>>, fail)
                  IN  /\ fail = 0 \/ d.threw
                      /\ bufs' = Settle([bufs EXCEPT ![1] = d.buf])
                      /\ ub' = IF d.bad THEN "pop_empty" ELSE "none"
                      /\ trace' = [trace EXCEPT !.popped = @ \o d.got \o d.lost]
                      /\ thr' = [thr EXCEPT ![t].pc = "unlock",
                                            ![t].ret = ~d.threw,
                                            ![t].threw = d.threw,
                                            ![t].got = d.got,
                                            ![t].pre = IF size(b) = 0 THEN <<>>
                                                       ELSE Content(b)]
                      /\ UNCHANGED <<last, hist, mutex, cv>>

\* a notified thread takes m_ again inside cv_.wait; the predicate is next
Wake(t) ==
    /\ thr[t].pc = "woken"
    /\ mutex[1] = NoThread
    /\ mutex' = [mutex EXCEPT ![1] = t]
    /\ thr' = [thr EXCEPT ![t].pc = "locked"]
    /\ UNCHANGED <<bufs, last, hist, ub, cv, trace>>

\* std::condition_variable::wait may return with no notification
Spurious(t) ==
    /\ t \in cv
    /\ cv' = cv \ {t}
    /\ thr' = [thr EXCEPT ![t].pc = "woken"]
    /\ UNCHANGED <<bufs, last, hist, ub, mutex, trace>>

\* the lock_guard of a pop releases m_ and the call returns
Unlock(t) ==
    /\ thr[t].pc = "unlock"
    /\ mutex' = [mutex EXCEPT ![1] = NoThread]
    /\ thr' = [thr EXCEPT ![t] = Idle]
    /\ UNCHANGED <<bufs, last, hist, ub, cv, trace>>

\* (mutant) the value is returned and the lock is not: m_ is free again
Hold_value(t, op) ==
    LET b == bufs[1]
    IN  /\ thr[t].pc = "idle"
        /\ mutex[1] = NoThread
        /\ thr' = [thr EXCEPT ![t] =
                      [Idle EXCEPT !.pc = "holding", !.op = op,
                                   !.val = IF op = "size" THEN size(b)
                                           ELSE IF op = "capacity" THEN capacity(b)
                                           ELSE IF op = "empty" /\ empty(b) THEN 1
                                           ELSE 0]]
        /\ trace' = [trace EXCEPT !.prodcons = FALSE]
        /\ UNCHANGED <<bufs, last, hist, ub, cv, mutex>>

\* lock(), size(), capacity(), empty(): std::unique_lock<std::mutex> lg(m_)
\* and the return of the lock, with the value read under it
Hold(t, op) ==
    LET b == bufs[1]
    IN  /\ thr[t].pc = "idle"
        /\ mutex[1] = NoThread
        /\ mutex' = [mutex EXCEPT ![1] = t]
        /\ thr' = [thr EXCEPT ![t] =
                      [Idle EXCEPT !.pc = "holding", !.op = op,
                                   !.val = IF op = "size" THEN size(b)
                                           ELSE IF op = "capacity" THEN capacity(b)
                                           ELSE IF op = "empty" /\ empty(b) THEN 1
                                           ELSE 0]]
        /\ trace' = [trace EXCEPT !.prodcons = FALSE]
        /\ UNCHANGED <<bufs, last, hist, ub, cv>>

\* the caller lets go of the std::unique_lock
Release(t) ==
    /\ thr[t].pc = "holding"
    /\ mutex' = [mutex EXCEPT ![1] = NoThread]
    /\ thr' = [thr EXCEPT ![t] = Idle]
    /\ UNCHANGED <<bufs, last, hist, ub, cv, trace>>

\* a = a, a = std::move(a), a.swap(a): std::scoped_lock lg(m_, other.m_) with
\* other.m_ being m_; locking a std::mutex the thread owns is undefined
SelfCall(t, op) ==
    /\ thr[t].pc = "idle"
    /\ mutex[1] = NoThread
    /\ mutex' = [mutex EXCEPT ![1] = t]
    /\ thr' = [thr EXCEPT ![t] = [Idle EXCEPT !.pc = "relock", !.op = op]]
    /\ ub' = "double_lock"
    /\ trace' = [trace EXCEPT !.prodcons = FALSE]
    /\ UNCHANGED <<bufs, last, hist, cv>>

Init3 ==
    /\ \E c \in 1..MaxCap3 :
          bufs = Settle([b \in Bufs |->
                            IF b = 1 THEN CapacityBuffer(c) ELSE DefaultBuffer])
    /\ last = NoOp
    /\ hist = HistOff
    /\ ub = "none"
    /\ Unsync

Th_call ==
    Running /\ (\E t \in Threads, op \in PushOps \cup {"append"} \cup PopOps,
                   arg \in 0..(MaxCount + MaxAppend) : Call(t, op, arg))
Th_push_read == Running /\ (\E t \in Threads : PushRead(t))
Th_push_write == Running /\ (\E t \in Threads : PushWrite(t))
Th_append == Running /\ (\E t \in Threads : AppendBody(t))
Th_notify == Running /\ (\E t \in Threads : Notify(t))
Th_try_pop == Running /\ (\E t \in Threads : TryPop(t))
Th_wait_pop == Running /\ (\E t \in Threads : WaitPop(t))
Th_wait_npop == Running /\ (\E t \in Threads : WaitNpop(t))
Th_wake == Running /\ (\E t \in Threads : Wake(t))
Th_spurious == Running /\ (\E t \in Threads : Spurious(t))
Th_unlock == Running /\ (\E t \in Threads : Unlock(t))
Th_self == Running /\ (\E t \in Threads, op \in SelfOps : SelfCall(t, op))
Th_hold == Running /\ (\E t \in Threads, op \in LockOps : Hold(t, op))
Th_release == Running /\ (\E t \in Threads : Release(t))

Next3 ==
    \/ Th_call
    \/ Th_push_read
    \/ Th_push_write
    \/ Th_append
    \/ Th_notify
    \/ Th_try_pop
    \/ Th_wait_pop
    \/ Th_wait_npop
    \/ Th_wake
    \/ Th_spurious
    \/ Th_unlock
    \/ Th_self
    \/ Th_hold
    \/ Th_release

Spec3 == Init3 /\ [][Next3]_vars

\* ---- two synchronized buffers ------------------------------------------------------
\* Buffers 1 and 2 are circular_buffer objects a and b, each with its m_; the
\* threads push to and pop from a, assign and swap a and b both ways, and
\* construct b anew as a copy of a.
Other(id) == IF id = 1 THEN 2 ELSE 1

InScoped(u) == thr[u].pc \in {"try2", "lock2", "locked2"}

\* std::scoped_lock lg(m_, other.m_) of operator=(const&), operator=(&&) and
\* swap: std::lock's first step, lock() of m_
Call2(t, op, dst) ==
    /\ thr[t].pc = "idle"
    /\ \A u \in Threads : thr[u].pc # "copying"
    /\ mutex[dst] = NoThread
    /\ mutex' = [mutex EXCEPT ![dst] = t]
    /\ thr' = [thr EXCEPT ![t] = [Idle EXCEPT !.pc = "try2", !.op = op,
                                              !.arg = dst, !.nxt = Other(dst)]]
    /\ trace' = [trace EXCEPT !.prodcons = FALSE]
    /\ UNCHANGED <<bufs, last, hist, ub, cv>>

\* (mutant) the second mutex is taken with lock(): the thread waits for it
\* while it owns the first
TryLock2_block(t) ==
    /\ thr[t].pc = "try2"
    /\ mutex[thr[t].nxt] = NoThread
    /\ mutex' = [mutex EXCEPT ![thr[t].nxt] = t]
    /\ thr' = [thr EXCEPT ![t].pc = "locked2"]
    /\ UNCHANGED <<bufs, last, hist, ub, cv, trace>>

\* std::lock: try_lock() of the other mutex; when it fails the mutex owned is
\* unlocked and the algorithm starts again, with either mutex first
TryLock2(t) ==
    /\ thr[t].pc = "try2"
    /\ IF mutex[thr[t].nxt] = NoThread
       THEN /\ mutex' = [mutex EXCEPT ![thr[t].nxt] = t]
            /\ thr' = [thr EXCEPT ![t].pc = "locked2"]
       ELSE /\ mutex' = [mutex EXCEPT ![Other(thr[t].nxt)] = NoThread]
            /\ \E n \in Bufs : thr' = [thr EXCEPT ![t].pc = "lock2", ![t].nxt = n]
    /\ UNCHANGED <<bufs, last, hist, ub, cv, trace>>

\* std::lock after a back-off: lock() of the mutex it starts with
Relock2(t) ==
    /\ thr[t].pc = "lock2"
    /\ mutex[thr[t].nxt] = NoThread
    /\ mutex' = [mutex EXCEPT ![thr[t].nxt] = t]
    /\ thr' = [thr EXCEPT ![t].pc = "try2", ![t].nxt = Other(thr[t].nxt)]
    /\ UNCHANGED <<bufs, last, hist, ub, cv, trace>>

\* *base() = other / base()->swap(other) under both mutexes, then the
\* scoped_lock releases them and the call returns: cv_ is not notified
Body2(t) ==
    LET dst == thr[t].arg
        src == Other(dst)
        c == copy_assign(bufs[dst], bufs[src], 0, FALSE)
        w == swap(bufs[dst], bufs[src])
    IN  /\ thr[t].pc = "locked2"
        /\ bufs' = IF thr[t].op = "copy_assign"
                   THEN Settle([bufs EXCEPT ![dst] = c.buf])
                   ELSE Settle([bufs EXCEPT ![dst] = w.this, ![src] = w.other])
        /\ mutex' = [b \in Bufs |-> IF mutex[b] = t THEN NoThread ELSE mutex[b]]
        /\ thr' = [thr EXCEPT ![t] = Idle]
        /\ UNCHANGED <<last, hist, ub, cv, trace>>

\* circular_buffer(circular_buffer const& other) : base_(other): no mutex is
\* taken. allocate_(other.capacity()) and the cursors of the source are read ...
CopyRead(t) ==
    /\ thr[t].pc = "idle"
    /\ \A u \in Threads : ~InScoped(u) /\ thr[u].pc # "copying"
    /\ mutex[2] = NoThread
    /\ thr' = [thr EXCEPT ![t] =
                  [Idle EXCEPT !.pc = "copying", !.op = "copy_ctor",
                               !.val = capacity(bufs[1]),
                               !.snap = [oi |-> bufs[1].oi, wi |-> bufs[1].wi],
                               !.pre = Content(bufs[1])]]
    /\ trace' = [trace EXCEPT !.prodcons = FALSE]
    /\ UNCHANGED <<bufs, last, hist, ub, mutex, cv>>

\* ... and safe_data_copy_impl_ copies the elements the cursors name out of
\* the storage as it is now. When another thread has written the cursors or
\* the elements of the source in between, the reads race with those writes
CopyElems(t) ==
    LET view == [bufs[1] EXCEPT !.cap = thr[t].val, !.oi = thr[t].snap.oi,
                                !.wi = thr[t].snap.wi]
        r == copy_ctor(view, 0, FALSE)
        raced == view # bufs[1] \/ Content(bufs[1]) # thr[t].pre
    IN  /\ thr[t].pc = "copying"
        /\ bufs' = Settle([bufs EXCEPT ![2] = r.buf])
        /\ ub' = IF raced THEN "data_race" ELSE "none"
        /\ thr' = [thr EXCEPT ![t] = Idle]
        /\ UNCHANGED <<last, hist, mutex, cv, trace>>

Init4 ==
    /\ \E c1 \in 1..MaxCap4, c2 \in 0..MaxCap4 :
          bufs = Settle([b \in Bufs |->
                            IF b = 1 THEN CapacityBuffer(c1)
                            ELSE IF c2 = 0 THEN DefaultBuffer
                            ELSE [CapacityBuffer(c2) EXCEPT !.blk = NewBlk + 1]])
    /\ last = NoOp
    /\ hist = HistOff
    /\ ub = "none"
    /\ Unsync

Tw_call ==
    /\ Running
    /\ \E t \in Threads, op \in {"push_back", "wait_pop"} :
          /\ op = "push_back" => trace.pushed < MaxPush4
          /\ op = "wait_pop" =>
                Len(trace.popped)
                  + Cardinality({u \in Threads : thr[u].op = "wait_pop"}) < MaxPush4
          /\ Call(t, op, 0)
Tw_call2 ==
    Running /\ (\E t \in Threads, op \in SelfOps, dst \in Bufs : Call2(t, op, dst))
Tw_try_lock == Running /\ (\E t \in Threads : TryLock2(t))
Tw_relock == Running /\ (\E t \in Threads : Relock2(t))
Tw_body == Running /\ (\E t \in Threads : Body2(t))
Tw_copy_read == Running /\ (\E t \in Threads : CopyRead(t))
Tw_copy_elems == Running /\ (\E t \in Threads : CopyElems(t))

Next4 ==
    \/ Tw_call
    \/ Th_push_read
    \/ Th_push_write
    \/ Th_notify
    \/ Th_wait_pop
    \/ Th_wake
    \/ Th_spurious
    \/ Th_unlock
    \/ Tw_call2
    \/ Tw_try_lock
    \/ Tw_relock
    \/ Tw_body
    \/ Tw_copy_read
    \/ Tw_copy_elems

Spec4 == Init4 /\ [][Next4]_vars

\* ---- properties ----------------------------------------------------------------
\* invariant I of the cursors
CursorInv(b) ==
    /\ capacity(b) > 0 => 0 <= b.oi /\ b.oi < capacity(b)
    /\ b.oi <= b.wi
    /\ b.wi <= b.oi + capacity(b)
    /\ 0 <= size(b) /\ size(b) <= capacity(b)

Pushed == [i \in 1..Len(hist.pushes) |-> hist.pushes[i].v]

\* the last n elements of sequence q
LastN(q, n) == SubSeq(q, Len(q) - n + 1, Len(q))

\* C1: on a buffer constructed empty with capacity C >= 1, after k <= C
\* push_back calls size() is k and the logical sequence is the pushed values
\* in push order
C1_PushWithinCapacity ==
    LET b == bufs[1]
        k == Len(hist.pushes)
    IN  (hist.on /\ hist.cap0 >= 1 /\ k <= hist.cap0) =>
            /\ size(b) = k
            /\ Content(b) = Pushed

C1_Witness ==
    /\ hist.on /\ hist.cap0 = MaxCap /\ Len(hist.pushes) = MaxCap
    /\ Pushed[1] # Pushed[2]
    /\ size(bufs[1]) = MaxCap

\* C2: on a buffer constructed empty with capacity C >= 1, after every one of
\* n push_back calls (n > C included) size() is min(n, C), capacity() is C,
\* back() is the last pushed value, the logical sequence is the last min(n, C)
\* pushed values in push order, and the i-th call returned true iff i > C
C2_PushBeyondCapacity ==
    LET b == bufs[1]
        n == Len(hist.pushes)
        C == hist.cap0
    IN  (hist.on /\ C >= 1 /\ n >= 1) =>
            /\ size(b) = Min(n, C)
            /\ capacity(b) = C
            /\ back(b) = Pushed[n]
            /\ Content(b) = LastN(Pushed, Min(n, C))
            /\ \A i \in 1..n : hist.pushes[i].ret = (i > C)

C2_Witness ==
    /\ hist.on /\ hist.cap0 = MaxCap /\ Len(hist.pushes) = MaxCap + 2
    /\ Pushed[MaxCap + 1] # Pushed[MaxCap + 2]
    /\ bufs[1].oi = 2
    /\ hist.pushes[MaxCap + 2].ret

\* C3: push_back / emplace_back returns true iff size() == capacity() held
\* immediately before the call; with capacity() == 0 it changes nothing and
\* returns false
C3_OverwriteIffFull ==
    [][(last'.op = "push_back" /\ ~last'.threw /\ ub' = "none") =>
          IF capacity(bufs[1]) = 0
          THEN ~last'.ret /\ bufs'[1] = bufs[1]
          ELSE last'.ret = (size(bufs[1]) = capacity(bufs[1]))]_vars

\* a push_back that returned true on a full buffer whose oldest element was
\* not in slot 0, so that the occupied region was wrapped
C3_Witness ==
    /\ last.op = "push_back" /\ last.ret /\ ~last.threw /\ ub = "none"
    /\ last.poi > 0 /\ last.psize = capacity(bufs[1])
    /\ bufs[1].oi = last.poi + 1

C5_ResizeSetsCapacity ==
    (last.op = "resize" /\ ~last.threw) => capacity(bufs[1]) = last.arg

\* C6: in every state reached by construction, push_back, append, pop_front,
\* pop_back, resize, copy / move construction and assignment and swap:
\* capacity > 0 implies 0 <= oldest_index_ < capacity, and oldest_index_ <=
\* write_index_ <= oldest_index_ + capacity, hence 0 <= size() <= capacity()
C6_CursorInvariant == \A id \in Bufs : CursorInv(bufs[id])

\* both objects hold elements, one of them wrapped, after a copy assignment
C6_Witness ==
    /\ last.op = "copy_assign" /\ ~last.threw
    /\ \E id \in Bufs : bufs[id].oi > 0 /\ bufs[id].wi > capacity(bufs[id])
    /\ \A id \in Bufs : size(bufs[id]) > 0

\* C7: after every operation, normal return or exception, the slots holding a
\* constructed element are exactly the occupied region of (oldest_index_,
\* write_index_, capacity): nothing leaked, nothing in the region destroyed,
\* no slot without an element destroyed
C7_ConstructedIsRegion ==
    /\ Constructed(bufs[1]) = Region(bufs[1])
    /\ last.leaked = 0
    /\ ~last.bad

\* C8: empty() is true iff size() == 0
C8_EmptyIffSizeZero == empty(bufs[1]) <=> (size(bufs[1]) = 0)

\* C9: a push_back / emplace_back called with size() < capacity() whose
\* construction throws leaves the buffer exactly as it was
C9_PushThrowNotFull ==
    [][(last'.op = "push_back" /\ last'.threw
            /\ size(bufs[1]) < capacity(bufs[1])) =>
          bufs'[1] = bufs[1]]_vars

C9_Witness ==
    /\ last.op = "push_back" /\ last.threw /\ ub = "none"
    /\ last.psize < capacity(bufs[1])
    /\ last.psize = size(bufs[1]) /\ last.psize > 0
    /\ bufs[1].wi > capacity(bufs[1])

\* C10 as stated: a push_back on a full buffer whose construction throws
\* leaves size() at its value before the call, and the invariant holds
C10_PushThrowFullKeepsSize ==
    [][(last'.op = "push_back" /\ last'.threw /\ capacity(bufs[1]) >= 1
            /\ size(bufs[1]) = capacity(bufs[1])) =>
          /\ size(bufs'[1]) = size(bufs[1])
          /\ CursorInv(bufs'[1])
          /\ Constructed(bufs'[1]) = Region(bufs'[1])]_vars

\* C10 amended: a push_back on a full buffer whose construction throws leaves
\* size() one below its value before the call: the oldest element is gone, the
\* other elements stay in order, capacity() is unchanged and the invariant holds
C10_PushThrowFullDropsOldest ==
    [][(last'.op = "push_back" /\ last'.threw /\ capacity(bufs[1]) >= 1
            /\ size(bufs[1]) = capacity(bufs[1])) =>
          /\ size(bufs'[1]) = size(bufs[1]) - 1
          /\ Content(bufs'[1]) = Tail(Content(bufs[1]))
          /\ capacity(bufs'[1]) = capacity(bufs[1])
          /\ CursorInv(bufs'[1])
          /\ Constructed(bufs'[1]) = Region(bufs'[1])]_vars

\* the construction threw on a full buffer whose oldest element was in the
\* last slot: the cursors wrapped
C10_Witness ==
    /\ last.op = "push_back" /\ last.threw /\ ub = "none"
    /\ last.psize = capacity(bufs[1]) /\ capacity(bufs[1]) = MaxCap
    /\ last.poi = capacity(bufs[1]) - 1
    /\ bufs[1].oi = 0
    /\ size(bufs[1]) = MaxCap - 1

\* C11: append(first, last) on a buffer with free = capacity() - size() slots
\* and a range of length L puts the first min(free, L) range elements, in
\* order, at the logical end, leaves every element that was in the buffer
\* where it was, and returns the position of the first range element it did
\* not consume
C11_AppendFillsFree ==
    [][(last'.op = "append" /\ ~last'.threw /\ ub' = "none") =>
          LET b == bufs[1]
              n == Min(capacity(b) - size(b), Len(last'.rng))
          IN  /\ Content(bufs'[1]) = Content(b) \o SubSeq(last'.rng, 1, n)
              /\ last'.arg2 = n
              /\ \A i \in Region(b) : bufs'[1].st[i] = b.st[i]
              /\ bufs'[1].oi = b.oi
              /\ capacity(bufs'[1]) = capacity(b)]_vars

\* an append that filled a wrapped buffer and left a range element unconsumed
C11_Witness ==
    /\ last.op = "append" /\ ~last.threw /\ ub = "none"
    /\ last.arg2 >= 1 /\ last.arg2 < Len(last.rng)
    /\ bufs[1].oi > 0 /\ bufs[1].wi > capacity(bufs[1])
    /\ size(bufs[1]) = capacity(bufs[1])

\* C12: an append(first, last) during which an element construction throws
\* leaves the buffer exactly as it was before the call, from every pre-call
\* state, write_index_ >= capacity included (the pushes of the call stayed
\* inside the block)
C12_AppendThrowRestores ==
    [][(last'.op = "append" /\ last'.threw /\ ub' # "out_of_block") =>
          bufs'[1] = bufs[1] /\ ub' = "none"]_vars

\* C13: a resize(k) that fails, because the allocation of the new block fails
\* or because a copy throws, leaves capacity, cursors and every slot as they
\* were and leaves no element constructed in the new block
C13_ResizeThrowUnmodified ==
    [][(last'.op = "resize" /\ last'.threw) =>
          /\ bufs'[1] = bufs[1]
          /\ last'.leaked = 0
          /\ ub' = "none"]_vars

\* the copy that threw was in the second chunk of a wrapped buffer
C13_Witness ==
    /\ last.op = "resize" /\ last.threw
    /\ last.poi > 0 /\ last.poi + last.psize > capacity(bufs[1])
    /\ last.arg2 > capacity(bufs[1]) - last.poi
    /\ last.arg >= last.arg2
    /\ size(bufs[1]) = last.psize /\ bufs[1].oi = last.poi

\* no two objects point to the same block
NoAlias ==
    \A i, j \in Bufs :
        (i # j /\ bufs[i].blk # NullBlk) => bufs[i].blk # bufs[j].blk

\* the operations on one object
SingleOps ==
    {"push_back", "pop_front", "pop_back", "resize", "append", "self_assign",
     "move_assign"}

\* C14: a buffer copy-constructed from a source has the logical sequence and
\* the capacity() of the source and a block of its own, the source is as it
\* was, and no later operation on one of the two objects changes the other
C14_CopyConstructIndependent ==
    [][/\ NoAlias'
       /\ (last'.op = "copy_ctor" /\ ~last'.threw) =>
             /\ Content(bufs'[last'.b]) = Content(bufs[last'.arg])
             /\ capacity(bufs'[last'.b]) = capacity(bufs[last'.arg])
             /\ bufs'[last'.arg] = bufs[last'.arg]
       /\ (last'.op \in SingleOps) =>
             \A o \in Bufs \ {last'.b} : bufs'[o] = bufs[o]]_vars

\* the copy of a wrapped source holding two different elements
C14_Witness ==
    /\ last.op = "copy_ctor" /\ ~last.threw
    /\ bufs[last.arg].oi > 0 /\ bufs[last.arg].wi > capacity(bufs[last.arg])
    /\ size(bufs[last.arg]) = 2
    /\ Content(bufs[last.arg])[1] # Content(bufs[last.arg])[2]
    /\ Content(bufs[last.b]) = Content(bufs[last.arg])
    /\ bufs[last.b].oi = 0

\* C15: after a move construction the new buffer has the logical sequence and
\* the capacity the source had, and the source is in the default state:
\* size() == 0, capacity() == 0, begin() == end(), no storage
C15_MoveConstruct ==
    [][(last'.op = "move_ctor") =>
          /\ Content(bufs'[last'.b]) = Content(bufs[last'.arg])
          /\ capacity(bufs'[last'.b]) = capacity(bufs[last'.arg])
          /\ size(bufs'[last'.arg]) = 0
          /\ capacity(bufs'[last'.arg]) = 0
          /\ IterEq(begin(bufs'[last'.arg]), end(bufs'[last'.arg]))
          /\ bufs'[last'.arg].blk = NullBlk]_vars

\* the source was wrapped and held two different elements
C15_Witness ==
    /\ last.op = "move_ctor"
    /\ bufs[last.b].oi > 0 /\ bufs[last.b].wi > capacity(bufs[last.b])
    /\ size(bufs[last.b]) = 2
    /\ Content(bufs[last.b])[1] # Content(bufs[last.b])[2]
    /\ bufs[last.arg] = DefaultBuffer

\* C16: after a = std::move(b), a and b distinct, a holds the logical sequence
\* and the capacity b had, and b is in the default state (size() == 0,
\* capacity() == 0), whatever a held before
C16_MoveAssignDefaultsSource ==
    [][(last'.op = "move_assign_from") =>
          /\ Content(bufs'[last'.b]) = Content(bufs[last'.arg])
          /\ capacity(bufs'[last'.b]) = capacity(bufs[last'.arg])
          /\ size(bufs'[last'.arg]) = 0
          /\ capacity(bufs'[last'.arg]) = 0]_vars

\* C17: after a successful copy assignment b = a, a and b distinct, the
\* logical sequence of b is that of a and a is as it was; b keeps its capacity
\* and its block when b.capacity() >= a.size() held before the call, and
\* otherwise b.capacity() becomes a.capacity()
C17_CopyAssign ==
    [][(last'.op = "copy_assign" /\ ~last'.threw /\ ub' = "none") =>
          LET b == bufs[last'.b]
              a == bufs[last'.arg]
          IN  /\ Content(bufs'[last'.b]) = Content(a)
              /\ bufs'[last'.arg] = a
              /\ IF capacity(b) >= size(a)
                 THEN /\ capacity(bufs'[last'.b]) = capacity(b)
                      /\ bufs'[last'.b].blk = b.blk
                 ELSE capacity(bufs'[last'.b]) = capacity(a)]_vars

\* an in-place assignment from a wrapped source holding two different elements
C17_Witness ==
    /\ last.op = "copy_assign" /\ ~last.threw /\ ub = "none" /\ last.ret
    /\ bufs[last.arg].oi > 0 /\ bufs[last.arg].wi > capacity(bufs[last.arg])
    /\ size(bufs[last.arg]) = 2
    /\ Content(bufs[last.arg])[1] # Content(bufs[last.arg])[2]
    /\ Content(bufs[last.b]) = Content(bufs[last.arg])

\* C18: when a copy throws during b = a, a is as it was; with b.capacity() <
\* a.size() before the call b is as it was and nothing stays constructed in
\* the released block; with b.capacity() >= a.size() b keeps its capacity and
\* its block, holds no element (its own destroyed, none of the copies left)
\* and satisfies the invariant
C18_CopyAssignThrow ==
    [][(last'.op = "copy_assign" /\ last'.threw /\ ub' = "none") =>
          LET b == bufs[last'.b]
              a == bufs[last'.arg]
              b1 == bufs'[last'.b]
          IN  /\ bufs'[last'.arg] = a
              /\ last'.leaked = 0
              /\ IF capacity(b) < size(a)
                 THEN b1 = b
                 ELSE /\ capacity(b1) = capacity(b) /\ b1.blk = b.blk
                      /\ CursorInv(b1)
                      /\ Constructed(b1) = Region(b1)
                      /\ Constructed(b1) = {}
                      /\ size(b1) = 0]_vars

\* a copy threw on the in-place path; the source is wrapped
C18_Witness ==
    /\ last.op = "copy_assign" /\ last.threw /\ ub = "none" /\ last.ret
    /\ bufs[last.arg].oi > 0 /\ bufs[last.arg].wi > capacity(bufs[last.arg])
    /\ size(bufs[last.arg]) = 2
    /\ capacity(bufs[last.b]) >= 2 /\ size(bufs[last.b]) = 0

\* C19: on a non-empty buffer pop_front removes the logically first element
\* and pop_back the logically last: size() is one less, the other elements
\* keep their values and their order, capacity() is unchanged
C19_PopRemovesEnd ==
    [][(last'.op \in {"pop_front", "pop_back"} /\ ub' = "none") =>
          LET q == Content(bufs[1])
          IN  /\ size(bufs[1]) > 0
              /\ size(bufs'[1]) = size(bufs[1]) - 1
              /\ capacity(bufs'[1]) = capacity(bufs[1])
              /\ Content(bufs'[1]) =
                    IF last'.op = "pop_front" THEN Tail(q)
                    ELSE SubSeq(q, 1, Len(q) - 1)]_vars

\* a pop_front on a full buffer whose oldest element was in the last slot:
\* oldest_index_ wrapped to 0 and the other elements are still there
C19_Witness ==
    /\ last.op = "pop_front" /\ ub = "none"
    /\ capacity(bufs[1]) = MaxCap
    /\ bufs[1].oi = 0 /\ bufs[1].wi = MaxCap - 1
    /\ Content(bufs[1])[1] # Content(bufs[1])[2]

\* C20: a buffer constructed from a range [first, last) of length n has
\* size() == capacity() == n and the range as its logical sequence; with
\* n >= 1 front() is the first range element and back() the last
C20_RangeConstruct ==
    (last.op = "range_ctor") =>
        LET b == bufs[1]
            n == Len(last.rng)
        IN  /\ size(b) = n
            /\ capacity(b) = n
            /\ Content(b) = last.rng
            /\ n >= 1 => front(b) = last.rng[1] /\ back(b) = last.rng[n]

\* a range of MaxCap elements whose first and last differ
C20_Witness ==
    /\ last.op = "range_ctor" /\ Len(last.rng) = MaxCap
    /\ last.rng[1] # last.rng[MaxCap]
    /\ front(bufs[1]) = last.rng[1]
    /\ back(bufs[1]) = last.rng[MaxCap]

\* C21: a buffer constructed with (initial_capacity, first, last) has
\* capacity() == initial_capacity and size() == min(initial_capacity,
\* distance(first, last)); it holds the first size() elements of the range in
\* order and none of the later ones
C21_CapRangeConstruct ==
    (last.op = "cap_range_ctor") =>
        LET b == bufs[1]
            n == Min(last.arg, Len(last.rng))
        IN  /\ capacity(b) = last.arg
            /\ size(b) = n
            /\ Content(b) = SubSeq(last.rng, 1, n)
            /\ n >= 1 => front(b) = last.rng[1] /\ back(b) = last.rng[n]

\* a range one element longer than the capacity, its last two elements differ
C21_Witness ==
    /\ last.op = "cap_range_ctor"
    /\ last.arg = MaxCap - 1 /\ Len(last.rng) = MaxCap
    /\ last.rng[MaxCap] # last.rng[MaxCap - 1]
    /\ size(bufs[1]) = MaxCap - 1
    /\ back(bufs[1]) = last.rng[MaxCap - 1]

\* ---- the synchronized wrapper ---------------------------------------------------
\* C22: the wrapper calls pop_front only on a buffer with size() > 0
C22_PopFrontNonEmpty == ub # "pop_empty"

\* C23: try_pop on a buffer that holds no element returns "no value", leaves
\* the buffer as it was and does not wait on the condition variable
C23_TryPopEmpty ==
    [][\A t \in Threads :
          (thr[t].op = "try_pop" /\ thr[t].pc = "locked"
               /\ thr'[t].pc # "locked" /\ size(bufs[1]) = 0) =>
             /\ thr'[t].pc = "unlock" /\ ~thr'[t].ret /\ thr'[t].got = <<>>
             /\ bufs' = bufs
             /\ cv' = cv]_vars

\* C24: wait_pop does not return while the buffer holds no element; when it
\* returns it has removed exactly the front element and returns its value
C24_WaitPopTakesFront ==
    [][\A t \in Threads :
          (thr[t].op = "wait_pop" /\ thr[t].pc = "locked"
               /\ thr'[t].pc = "unlock" /\ ~thr'[t].threw) =>
             /\ size(bufs[1]) > 0
             /\ thr'[t].got = <<front(bufs[1])>>
             /\ Content(bufs'[1]) = Tail(Content(bufs[1]))]_vars

\* C25: wait_npop(out, count), count >= 1, on a buffer of s >= 1 elements
\* removes the first min(count, s) elements, writes them out in order and
\* leaves the others (the steps in which pop_front is undefined are claim
\* C22's)
C25_WaitNpopTakesCount ==
    [][\A t \in Threads :
          (thr[t].op = "wait_npop" /\ thr[t].pc = "locked"
               /\ thr'[t].pc = "unlock" /\ thr[t].arg >= 1
               /\ ~thr'[t].threw
               /\ size(bufs[1]) >= 1 /\ ub' = "none") =>
             LET q == Content(bufs[1])
                 n == Min(thr[t].arg, Len(q))
             IN  /\ thr'[t].got = SubSeq(q, 1, n)
                 /\ Content(bufs'[1]) = SubSeq(q, n + 1, Len(q))]_vars

\* C26: with producers calling push_back and consumers calling wait_pop only,
\* the values popped are values pushed, each popped once
C26_PoppedArePushed ==
    trace.prodcons =>
        /\ \A i \in 1..Len(trace.popped) : trace.popped[i] \in 1..trace.pushed
        /\ \A i, j \in 1..Len(trace.popped) :
              i # j => trace.popped[i] # trace.popped[j]

\* C27: elements are popped in the order they were pushed (the elements are
\* numbered in the order of their pushes)
C27_PopOrderIsPushOrder ==
    ub = "none" =>
        \A i, j \in 1..Len(trace.popped) :
            i < j => trace.popped[i] < trace.popped[j]

\* every element pushed has been popped in order, the last ones by wait_npop,
\* from a buffer smaller than the number of elements pushed
C27_Witness ==
    /\ ub = "none"
    /\ trace.popped = [i \in 1..MaxPush3 |-> i]
    /\ capacity(bufs[1]) < MaxPush3
    /\ \E t \in Threads : thr[t].pc = "unlock" /\ thr[t].op = "wait_npop"

C29_WokenReturnsElement ==
    [][\A t \in Threads :
          (thr[t].woke /\ thr[t].op \in {"wait_pop", "wait_npop"}
               /\ thr[t].pc = "locked" /\ thr'[t].pc = "unlock"
               /\ ~thr'[t].threw
               /\ (thr[t].op = "wait_npop" => thr[t].arg >= 1)) =>
             /\ size(bufs[1]) > 0
             /\ Len(thr'[t].got) >= 1
             /\ thr'[t].got[1] = front(bufs[1])]_vars

\* C30: assigning or swapping a synchronized buffer with itself does not lock
\* its mutex twice
C30_SelfNoDoubleLock == \A t \in Threads : thr[t].pc # "relock"

\* C32: when the move of the front element throws inside wait_pop, the front
\* element is removed all the same before the exception leaves the call:
\* size() is one less, the other elements are as they were and in order, the
\* cursor invariant holds, and the mutex is released when the call is left
C32_WaitPopThrowRemovesFront ==
    [][\A t \in Threads :
          /\ (thr[t].op = "wait_pop" /\ thr[t].pc = "locked"
                  /\ thr'[t].pc = "unlock" /\ thr'[t].threw
                  /\ size(bufs[1]) > 0) =>
                /\ size(bufs'[1]) = size(bufs[1]) - 1
                /\ Content(bufs'[1]) = Tail(Content(bufs[1]))
                /\ CursorInv(bufs'[1])
                /\ capacity(bufs'[1]) = capacity(bufs[1])
                /\ thr'[t].got = <<>>
          /\ (thr[t].op = "wait_pop" /\ thr[t].pc = "unlock" /\ thr[t].threw) =>
                thr'[t].pc \in {"unlock", "idle"}
          /\ (thr[t].pc = "unlock" /\ thr'[t].pc = "idle") =>
                mutex[1] = t /\ mutex'[1] = NoThread]_vars

\* a wait_pop that was blocked, woke up on a buffer of two elements and whose
\* move threw
C32_Witness ==
    \E t \in Threads :
        /\ thr[t].op = "wait_pop" /\ thr[t].pc = "unlock" /\ thr[t].threw
        /\ thr[t].woke /\ ub = "none"
        /\ Len(thr[t].pre) = 2
        /\ size(bufs[1]) = 1

\* the calls on the buffer that thread u is inside of, past its lock
InCall(u) == thr[u].pc \in {"locked", "write", "notify", "unlock", "holding"}

C39_WaitNpopLoopBound ==
    [][\A t \in Threads :
          (thr[t].op = "wait_npop" /\ thr[t].pc = "locked"
               /\ thr'[t].pc = "unlock" /\ size(bufs[1]) >= 1) =>
             LET iterations == Len(trace'.popped) - Len(trace.popped)
             IN  /\ ub' = "none"
                 /\ iterations <= Min(thr[t].arg, size(bufs[1]))]_vars

\* ---- two synchronized buffers -----------------------------------------------------
\* C38: every call that can make an empty buffer non-empty signals the
\* condition variable, so no thread is left blocked in wait_pop / wait_npop
\* on a buffer that holds an element once every call under way has returned:
\* from there the waiter is blocked for as long as the buffer stays as it is
C38_NoWaiterLeftBehind ==
    ~ /\ ub = "none"
      /\ cv # {}
      /\ size(bufs[1]) > 0 /\ ~empty(bufs[1])
      /\ \A t \in Threads \ cv : thr[t].pc = "idle"
      /\ \A b \in Bufs : mutex[b] = NoThread

\* a step of thread u inside a call
ThreadStep(u) ==
    \/ PushRead(u) \/ PushWrite(u) \/ Notify(u)
    \/ WaitPop(u) \/ Wake(u) \/ Unlock(u)
    \/ TryLock2(u) \/ Relock2(u) \/ Body2(u)
    \/ CopyElems(u)

\* C31: a = b / a.swap(b) in one thread and b = a / b.swap(a) in another, on two
\* distinct synchronized buffers, never deadlock: a call touches the buffers
\* only when it owns both mutexes, and a thread that is acquiring them can
\* always take a step, or waits for a mutex whose owner can take one
C31_NoDeadlock ==
    ub = "none" =>
        \A t \in Threads :
            /\ thr[t].pc = "locked2" => mutex[1] = t /\ mutex[2] = t
            /\ thr[t].pc = "try2" =>
                  mutex[thr[t].arg] = t \/ mutex[Other(thr[t].arg)] = t
            /\ thr[t].pc = "lock2" => mutex[1] # t /\ mutex[2] # t
            /\ InScoped(t) =>
                  \/ ENABLED ThreadStep(t)
                  \/ \E u \in Threads \ {t} :
                        mutex[thr[t].nxt] = u /\ ENABLED ThreadStep(u)

\* thread 1 is in a = b and owns a's mutex, thread 2 is in b.swap(a) and owns
\* b's: each is about to try the mutex the other owns
C31_Witness ==
    /\ thr[1].pc = "try2" /\ thr[1].op = "copy_assign" /\ thr[1].arg = 1
    /\ thr[2].pc = "try2" /\ thr[2].op = "swap" /\ thr[2].arg = 2
    /\ mutex[1] = 1 /\ mutex[2] = 2
    /\ size(bufs[1]) > 0 /\ ub = "none"

\* C40: a buffer copy-constructed from a source that other threads change
\* equals the source at one point of its history: what it was when the
\* constructor began to read it or what it is when the constructor ends (the
\* only points there are when the reads are made under the source's mutex)
C40_CopyIsSnapshot ==
    [][\A t \in Threads :
          (thr[t].pc = "copying" /\ thr'[t].pc = "idle") =>
             Content(bufs'[2]) \in {thr[t].pre, Content(bufs[1])}]_vars

\* ---- the reference bounded sequence ------------------------------------------
\* push on a sequence bounded by C: the oldest element leaves a full sequence
RefPush(q, v, C) == IF Len(q) < C THEN Append(q, v) ELSE Append(Tail(q), v)

RefPopFront(q) == Tail(q)

RefPopBack(q) == SubSeq(q, 1, Len(q) - 1)

\* size(), front(), back() and operator[] read the sequence q off buffer b
Agrees(b, q) ==
    /\ size(b) = Len(q)
    /\ \A i \in 1..Len(q) : At(b, i - 1) = q[i]
    /\ Len(q) > 0 => front(b) = q[1] /\ back(b) = q[Len(q)]

\* C34: with a capacity C >= 1 that stays fixed, every push_back, pop_front
\* and pop_back (the pops on a non-empty buffer) takes the logical sequence to
\* what the same operation makes of the reference sequence bounded by C, and
\* size(), front(), back() and operator[] agree with it after the step
C34_RefinesBoundedSequence ==
    [][LET b == bufs[1]
           q == Content(b)
           C == capacity(b)
           r == IF last'.op = "push_back" THEN RefPush(q, last'.arg, C)
                ELSE IF last'.op = "pop_front" THEN RefPopFront(q)
                ELSE RefPopBack(q)
       IN  (/\ last'.op \in {"push_back", "pop_front", "pop_back"}
            /\ ~last'.threw /\ ub' = "none"
            /\ C >= 1 /\ CursorInv(b))
           => /\ capacity(bufs'[1]) = C
              /\ Content(bufs'[1]) = r
              /\ Agrees(bufs'[1], r)]_vars

\* a pop_back on a wrapped buffer whose two ends differ, after pushes and a
\* pop_front in the same run
C34_Witness ==
    /\ last.op = "pop_back" /\ ub = "none"
    /\ bufs[1].oi > 0 /\ bufs[1].wi >= capacity(bufs[1])
    /\ size(bufs[1]) >= 2
    /\ front(bufs[1]) # back(bufs[1])


\* C37: no operation constructs, destroys or reads a slot whose index is not
\* below the number of slots of the allocated block, and size() never exceeds
\* that number: after a resize(k) to a smaller k the following calls stay in
\* slots 0..k-1
C37_SlotsWithinBlock ==
    /\ ub # "out_of_block"
    /\ size(bufs[1]) <= bufs[1].alloc
    /\ \A i \in Constructed(bufs[1]) : i < bufs[1].alloc

\* ---- iterators -------------------------------------------------------------------
\* the slot operator[](i) refers to
SlotOf(b, i) == checked_index_(b, b.oi + i)

Fuel == 2 * MaxCap + 2

\* C35: in every state (wrapped ones included) end() - begin() is size(),
\* stepping ++ from begin() until == end() meets size() elements, the i-th
\* being the element of operator[](i), and rbegin() .. rend() meets the same
\* elements in reverse order
C35_IterationIsContent ==
    LET b == bufs[1]
        n == size(b)
    IN  (ub = "none" /\ CursorInv(b)) =>
            /\ iter_diff(end(b), begin(b)) = n
            /\ Visit(begin(b), end(b), Fuel) = [i \in 1..n |-> SlotOf(b, i - 1)]
            /\ iter_diff(begin(b), end(b)) = 0 - n
            /\ RVisit(end(b), begin(b), Fuel) = [i \in 1..n |-> SlotOf(b, n - i)]

\* a full buffer whose elements wrap round the end of the block
C35_Witness ==
    /\ ub = "none" /\ CursorInv(bufs[1])
    /\ bufs[1].oi > 0 /\ bufs[1].wi > capacity(bufs[1])
    /\ size(bufs[1]) = MaxCap
    /\ front(bufs[1]) # back(bufs[1])

\* C36: for an iterator at logical position p and every n with p + n < size(),
\* it[n] is the element operator[](p + n) of the buffer
C36_IteratorSubscript ==
    LET b == bufs[1]
    IN  (ub = "none" /\ CursorInv(b)) =>
            \A p \in 0..size(b), n \in 0..size(b) :
                p + n < size(b) =>
                    iter_at(iter_advance(begin(b), p), n) = SlotOf(b, p + n)

====
